---- MODULE Spec2Model ----
(***************************************************************************)
(* Model of otree_redwood/firebase/watch.py: the firebase watcher thread,  *)
(* its list of (regex, handler) matchers, register_path, start and the     *)
(* built-in decision handler.                                              *)
(*                                                                         *)
(* Text is modelled as sequences of one-character strings.  A firebase     *)
(* path "/a/b/c" is the sequence of its segments <<a, b, c>>, each         *)
(* segment a character sequence without "/".                               *)
(***************************************************************************)
EXTENDS Integers, Sequences, FiniteSets, TLC

(***************************************************************************)
(* Bounds of the model.                                                    *)
(***************************************************************************)
\* messages read from the event stream, over all watcher threads
MaxEvents == 2
\* calls of start()
MaxStarts == 2
\* calls of register_path()
MaxRegs == 1

(***************************************************************************)
(* Text helpers.                                                           *)
(***************************************************************************)
Slash == "/"

\* the text s1 "/" s2 "/" ... of the segments segs[from..to]
RECURSIVE Join(_, _, _)
Join(segs, from, to) ==
    IF from > to THEN << >>
    ELSE IF from = to THEN segs[from]
    ELSE segs[from] \o <<Slash>> \o Join(segs, from + 1, to)

Digits == {"0", "1", "2", "3", "4", "5", "6", "7", "8", "9"}

DigitVal(c) ==
    CASE c = "0" -> 0 [] c = "1" -> 1 [] c = "2" -> 2 [] c = "3" -> 3
      [] c = "4" -> 4 [] c = "5" -> 5 [] c = "6" -> 6 [] c = "7" -> 7
      [] c = "8" -> 8 [] c = "9" -> 9

\* s without its leading and trailing blanks, as int() strips them
RECURSIVE Strip(_)
Strip(s) ==
    IF s = << >> THEN s
    ELSE IF Head(s) = " " THEN Strip(Tail(s))
    ELSE IF s[Len(s)] = " " THEN Strip(SubSeq(s, 1, Len(s) - 1))
    ELSE s

RECURSIVE DigitsValue(_, _)
DigitsValue(s, acc) ==
    IF s = << >> THEN acc
    ELSE DigitsValue(Tail(s), 10 * acc + DigitVal(Head(s)))

AllDigits(s) == s # << >> /\ \A i \in 1..Len(s) : s[i] \in Digits

\* Python's int(text): [ok |-> FALSE] stands for ValueError
ParseInt(text) ==
    LET s == Strip(text)
        signed == s # << >> /\ Head(s) \in {"+", "-"}
        body == IF signed THEN Tail(s) ELSE s
    IN  IF AllDigits(body)
        THEN [ok |-> TRUE,
              val |-> IF signed /\ Head(s) = "-"
                      THEN 0 - DigitsValue(body, 0)
                      ELSE DigitsValue(body, 0)]
        ELSE [ok |-> FALSE, val |-> 0]

(***************************************************************************)
(* Regular expressions.  Every pattern of the model has the shape of       *)
(* _DECISION_RE: a sequence of pairs (literal segment, capture name),      *)
(* standing for the regex that repeats, for each pair, the text "/lit/"    *)
(* followed by a named group holding "any characters, as many as can be".  *)
(* A literal starts and ends with "/" and a segment holds no "/", so a     *)
(* literal can only match a whole segment that is followed by "/", and a   *)
(* capture ".*" takes one or more whole segments (an empty segment         *)
(* included) with the "/" between them, as long as they hold no newline,   *)
(* the one character "." refuses.                                          *)
(***************************************************************************)
Newline == "\n"

\* the longest start of text that "." repeated can take
UpToNewline(text) ==
    LET stops == {i \in 1..Len(text) : text[i] = Newline}
    IN  IF stops = {} THEN text
        ELSE SubSeq(text, 1, (CHOOSE i \in stops : \A j \in stops : i <= j) - 1)

Chars(str) ==
    CASE str = "session" -> <<"s", "e", "s", "s", "i", "o", "n">>
      [] str = "app" -> <<"a", "p", "p">>
      [] str = "subsession" -> <<"s", "u", "b", "s", "e", "s", "s", "i", "o", "n">>
      [] str = "round" -> <<"r", "o", "u", "n", "d">>
      [] str = "group" -> <<"g", "r", "o", "u", "p">>
      [] str = "component" -> <<"c", "o", "m", "p", "o", "n", "e", "n", "t">>
      [] str = "decisions" -> <<"d", "e", "c", "i", "s", "i", "o", "n", "s">>
      [] str = "log" -> <<"l", "o", "g">>

Part(lit, cap) == [lit |-> Chars(lit), cap |-> cap]

_DECISION_RE ==
    << Part("session", "session"),
       Part("app", "app"),
       Part("subsession", "subsession"),
       Part("round", "round"),
       Part("group", "group"),
       Part("component", "component"),
       Part("decisions", "participant_code") >>

\* re.compile(pattern): a group name used twice is an error
CompileOk(pat) ==
    \A i, j \in 1..Len(pat) : pat[i].cap = pat[j].cap => i = j

\* MatchFrom for groups that take as few characters as can be: each capture
\* takes the shortest text that lets the rest match
RECURSIVE MatchFromLazy(_, _, _, _)
MatchFromLazy(pat, path, k, pos) ==
    IF pos >= Len(path) \/ path[pos] # pat[k].lit
    THEN [ok |-> FALSE, caps |-> << >>]
    ELSE IF k = Len(pat)
    THEN [ok |-> TRUE, caps |-> << << >> >>]
    ELSE LET ends == {e \in (pos + 1)..Len(path) :
                         /\ MatchFromLazy(pat, path, k + 1, e + 1).ok
                         /\ UpToNewline(Join(path, pos + 1, e)) = Join(path, pos + 1, e)}
         IN  IF ends = {}
             THEN [ok |-> FALSE, caps |-> << >>]
             ELSE LET e == CHOOSE x \in ends : \A y \in ends : x <= y
                  IN  [ok |-> TRUE,
                       caps |-> << Join(path, pos + 1, e) >>
                                \o MatchFromLazy(pat, path, k + 1, e + 1).caps]

\* the parts k.. of pat against the path from segment pos on, greedy with
\* backtracking: each capture takes the longest text that lets the rest match
RECURSIVE MatchFrom(_, _, _, _)
MatchFrom(pat, path, k, pos) ==
    IF pos >= Len(path) \/ path[pos] # pat[k].lit
    THEN [ok |-> FALSE, caps |-> << >>]
    ELSE IF k = Len(pat)
    THEN [ok |-> TRUE, caps |-> << UpToNewline(Join(path, pos + 1, Len(path))) >>]
    ELSE LET ends == {e \in (pos + 1)..Len(path) :
                         /\ MatchFrom(pat, path, k + 1, e + 1).ok
                         /\ UpToNewline(Join(path, pos + 1, e)) = Join(path, pos + 1, e)}
         IN  IF ends = {}
             THEN [ok |-> FALSE, caps |-> << >>]
             ELSE LET e == CHOOSE x \in ends : \A y \in ends : y <= x
                  IN  [ok |-> TRUE,
                       caps |-> << Join(path, pos + 1, e) >>
                                \o MatchFrom(pat, path, k + 1, e + 1).caps]

\* regex.match(path): anchored at the start of the path, not at its end.
\* groups is match.groupdict()
Match(pat, path) ==
    LET m == MatchFrom(pat, path, 1, 1)
    IN  IF m.ok
        THEN [ok |-> TRUE,
              groups |-> [n \in {pat[i].cap : i \in 1..Len(pat)} |->
                            m.caps[CHOOSE i \in 1..Len(pat) : pat[i].cap = n]]]
        ELSE [ok |-> FALSE, groups |-> << >>]

(***************************************************************************)
(* JSON.  The data of a stream message is a text, modelled as its sequence *)
(* of JSON tokens; json.loads turns it into a value or fails.              *)
(***************************************************************************)
JNull == [t |-> "null", n |-> 0, s |-> << >>]
JNum(n) == [t |-> "num", n |-> n, s |-> << >>]
\* a JSON string whose text is the path with the segments segs
JStr(segs) == [t |-> "str", n |-> 0, s |-> segs]

Punct(c) == [k |-> c, key |-> "", val |-> JNull]
KeyTok(name) == [k |-> "key", key |-> name, val |-> JNull]
ValTok(v) == [k |-> "val", key |-> "", val |-> v]

\* the members  key : value , key : value ...  between the braces
RECURSIVE Members(_)
Members(toks) ==
    IF Len(toks) >= 3 /\ toks[1].k = "key" /\ toks[2].k = ":" /\ toks[3].k = "val"
    THEN IF Len(toks) = 3
         THEN [ok |-> TRUE, d |-> (toks[1].key :> toks[3].val)]
         ELSE IF toks[4].k = ","
         THEN LET rest == Members(SubSeq(toks, 5, Len(toks)))
              IN  IF rest.ok
                  \* a key given twice keeps its last value
                  THEN [ok |-> TRUE, d |-> rest.d @@ (toks[1].key :> toks[3].val)]
                  ELSE [ok |-> FALSE, d |-> << >>]
         ELSE [ok |-> FALSE, d |-> << >>]
    ELSE [ok |-> FALSE, d |-> << >>]

\* json.loads(text): ok = FALSE stands for ValueError; a dict is a function
\* from its keys to their values, any other value is in v
JsonLoads(toks) ==
    IF Len(toks) = 1 /\ toks[1].k = "val"
    THEN [ok |-> TRUE, isDict |-> FALSE, d |-> << >>, v |-> toks[1].val]
    ELSE IF Len(toks) = 2 /\ toks[1].k = "{" /\ toks[2].k = "}"
    THEN [ok |-> TRUE, isDict |-> TRUE, d |-> << >>, v |-> JNull]
    ELSE IF Len(toks) > 2 /\ toks[1].k = "{" /\ toks[Len(toks)].k = "}"
    THEN LET m == Members(SubSeq(toks, 2, Len(toks) - 1))
         IN  [ok |-> m.ok, isDict |-> TRUE, d |-> m.d, v |-> JNull]
    ELSE [ok |-> FALSE, isDict |-> FALSE, d |-> << >>, v |-> JNull]

\* message_payload[key]: the value, or the exception the subscript raises
Subscript(payload, key) ==
    IF ~payload.isDict THEN [exc |-> "TypeError", val |-> JNull]
    ELSE IF key \notin DOMAIN payload.d THEN [exc |-> "KeyError", val |-> JNull]
    ELSE [exc |-> "", val |-> payload.d[key]]

(***************************************************************************)
(* The database of the host application, as the handler sees it.           *)
(***************************************************************************)
S1 == <<"S", "1">>
S9 == <<"S", "9">>
P1 == <<"P", "1">>
P9 == <<"P", "9">>

\* rows of otree's Session and Participant tables
SessionRows == { [id |-> 11, code |-> S1] }
ParticipantRows == { [id |-> 21, code |-> P1] }

\* Model.objects.get(code=code): the rows found; none is DoesNotExist
Get(rows, code) == {r \in rows : r.code = code}

(***************************************************************************)
(* Handlers.  The result of a call: whether it raised and what, and the    *)
(* Decision rows it handed to save().                                      *)
(***************************************************************************)
Returned(saved) == [raised |-> FALSE, exc |-> "", saved |-> saved]
Raised(exc, saved) == [raised |-> TRUE, exc |-> exc, saved |-> saved]

\* _handleDecisionEvent with d.group set from the round capture and d.round
\* from the group capture
HandleSwapsRoundAndGroup(match, data, saveOk) ==
    LET g == match
        session == Get(SessionRows, g["session"])
        subsession == ParseInt(g["subsession"])
        round == ParseInt(g["round"])
        group == ParseInt(g["group"])
        participant == Get(ParticipantRows, g["participant_code"])
        d == [component |-> g["component"],
              session |-> (CHOOSE r \in session : TRUE).id,
              subsession |-> IF subsession.ok THEN {subsession.val} ELSE {},
              round |-> group.val,
              group |-> round.val,
              participant |-> (CHOOSE r \in participant : TRUE).id,
              app |-> g["app"],
              value |-> data]
    IN  IF session = {} THEN Returned(<< >>)
        ELSE IF ~round.ok THEN Raised("ValueError", << >>)
        ELSE IF ~group.ok THEN Raised("ValueError", << >>)
        ELSE IF participant = {} THEN Raised("DoesNotExist", << >>)
        ELSE IF saveOk THEN Returned(<< d >>)
        ELSE Raised("DatabaseError", << d >>)

\* _handleDecisionEvent without the try statement around the session lookup
HandleUnknownSessionRaises(match, data, saveOk) ==
    LET g == match
        session == Get(SessionRows, g["session"])
        subsession == ParseInt(g["subsession"])
        round == ParseInt(g["round"])
        group == ParseInt(g["group"])
        participant == Get(ParticipantRows, g["participant_code"])
        d == [component |-> g["component"],
              session |-> (CHOOSE r \in session : TRUE).id,
              subsession |-> IF subsession.ok THEN {subsession.val} ELSE {},
              round |-> round.val,
              group |-> group.val,
              participant |-> (CHOOSE r \in participant : TRUE).id,
              app |-> g["app"],
              value |-> data]
    IN  IF session = {} THEN Raised("DoesNotExist", << >>)
        ELSE IF ~round.ok THEN Raised("ValueError", << >>)
        ELSE IF ~group.ok THEN Raised("ValueError", << >>)
        ELSE IF participant = {} THEN Raised("DoesNotExist", << >>)
        ELSE IF saveOk THEN Returned(<< d >>)
        ELSE Raised("DatabaseError", << d >>)

\* _handleDecisionEvent with round and group parsed as subsession is: a
\* capture that is no integer leaves the field at its default
HandleToleratesBadRound(match, data, saveOk) ==
    LET g == match
        session == Get(SessionRows, g["session"])
        subsession == ParseInt(g["subsession"])
        round == ParseInt(g["round"])
        group == ParseInt(g["group"])
        participant == Get(ParticipantRows, g["participant_code"])
        d == [component |-> g["component"],
              session |-> (CHOOSE r \in session : TRUE).id,
              subsession |-> IF subsession.ok THEN {subsession.val} ELSE {},
              round |-> round.val,
              group |-> group.val,
              participant |-> (CHOOSE r \in participant : TRUE).id,
              app |-> g["app"],
              value |-> data]
    IN  IF session = {} THEN Returned(<< >>)
                ELSE IF participant = {} THEN Raised("DoesNotExist", << >>)
        ELSE IF saveOk THEN Returned(<< d >>)
        ELSE Raised("DatabaseError", << d >>)

\* _handleDecisionEvent without the try statement around int(g['subsession'])
HandleRequiresSubsession(match, data, saveOk) ==
    LET g == match
        session == Get(SessionRows, g["session"])
        subsession == ParseInt(g["subsession"])
        round == ParseInt(g["round"])
        group == ParseInt(g["group"])
        participant == Get(ParticipantRows, g["participant_code"])
        d == [component |-> g["component"],
              session |-> (CHOOSE r \in session : TRUE).id,
              subsession |-> IF subsession.ok THEN {subsession.val} ELSE {},
              round |-> round.val,
              group |-> group.val,
              participant |-> (CHOOSE r \in participant : TRUE).id,
              app |-> g["app"],
              value |-> data]
    IN  IF session = {} THEN Returned(<< >>)
        ELSE IF ~subsession.ok THEN Raised("ValueError", << >>)
        ELSE IF ~round.ok THEN Raised("ValueError", << >>)
        ELSE IF ~group.ok THEN Raised("ValueError", << >>)
        ELSE IF participant = {} THEN Raised("DoesNotExist", << >>)
        ELSE IF saveOk THEN Returned(<< d >>)
        ELSE Raised("DatabaseError", << d >>)

\* _handleDecisionEvent with the participant lookup guarded as the session
\* lookup is: an unknown participant makes the handler return
HandleUnknownParticipantDropped(match, data, saveOk) ==
    LET g == match
        session == Get(SessionRows, g["session"])
        subsession == ParseInt(g["subsession"])
        round == ParseInt(g["round"])
        group == ParseInt(g["group"])
        participant == Get(ParticipantRows, g["participant_code"])
        d == [component |-> g["component"],
              session |-> (CHOOSE r \in session : TRUE).id,
              subsession |-> IF subsession.ok THEN {subsession.val} ELSE {},
              round |-> round.val,
              group |-> group.val,
              participant |-> (CHOOSE r \in participant : TRUE).id,
              app |-> g["app"],
              value |-> data]
    IN  IF session = {} THEN Returned(<< >>)
        ELSE IF ~round.ok THEN Raised("ValueError", << >>)
        ELSE IF ~group.ok THEN Raised("ValueError", << >>)
        ELSE IF participant = {} THEN Returned(<< >>)
        ELSE IF saveOk THEN Returned(<< d >>)
        ELSE Raised("DatabaseError", << d >>)

\* _handleDecisionEvent(match, data); saveOk tells whether the database
\* accepts the row
_handleDecisionEvent(match, data, saveOk) ==
    LET g == match
        session == Get(SessionRows, g["session"])
        subsession == ParseInt(g["subsession"])
        round == ParseInt(g["round"])
        group == ParseInt(g["group"])
        participant == Get(ParticipantRows, g["participant_code"])
        d == [component |-> g["component"],
              session |-> (CHOOSE r \in session : TRUE).id,
              subsession |-> IF subsession.ok THEN {subsession.val} ELSE {},
              round |-> round.val,
              group |-> group.val,
              participant |-> (CHOOSE r \in participant : TRUE).id,
              app |-> g["app"],
              value |-> data]
    IN  IF session = {} THEN Returned(<< >>)
        ELSE IF ~round.ok THEN Raised("ValueError", << >>)
        ELSE IF ~group.ok THEN Raised("ValueError", << >>)
        ELSE IF participant = {} THEN Raised("DoesNotExist", << >>)
        ELSE IF saveOk THEN Returned(<< d >>)
        ELSE Raised("DatabaseError", << d >>)

\* handlers other components register: one that returns, one that raises,
\* and one that calls register_path and returns
Call(f, match, data, saveOk) ==
    CASE f = "_handleDecisionEvent" -> _handleDecisionEvent(match, data, saveOk)
      [] f = "onEvent" -> Returned(<< >>)
      [] f = "onEventRaises" -> Raised("RuntimeError", << >>)
      [] f = "onEventRegisters" -> Returned(<< >>)

(***************************************************************************)
(* Inputs: the messages the event stream can deliver and the arguments of  *)
(* register_path.                                                          *)
(***************************************************************************)
DecisionPath(session, app, subsession, round, group, component, code) ==
    << Chars("session"), session, Chars("app"), app,
       Chars("subsession"), subsession, Chars("round"), round,
       Chars("group"), group, Chars("component"), component,
       Chars("decisions"), code >>

Econ == <<"e">>
Chat == <<"c">>
Abc == <<"a", "b", "c">>

\* "/session/S1/app/e/subsession/1/round/2/group/3/component/c/decisions/P1"
PathGood == DecisionPath(S1, Econ, <<"1">>, <<"2">>, <<"3">>, Chat, P1)
PathSigned == DecisionPath(S1, Econ, <<"1", "0">>, <<"-", "2">>, <<" ", "3">>, Chat, P1)
PathNoSubsession == DecisionPath(S1, Econ, Abc, <<"2">>, <<"3">>, Chat, P1)
PathBadRound == DecisionPath(S1, Econ, <<"1">>, Abc, <<"3">>, Chat, P1)
PathBadGroup == DecisionPath(S1, Econ, <<"1">>, <<"2">>, << >>, Chat, P1)
PathNoParticipant == DecisionPath(S1, Econ, <<"1">>, <<"2">>, <<"3">>, Chat, P9)
PathForeign == DecisionPath(S9, Econ, <<"1">>, Abc, <<"3">>, Chat, P9)
\* "/session/S1/app/x/app/e/subsession/..." : a second "/app/" in the session part
PathTwoApps ==
    << Chars("session"), S1, Chars("app"), <<"x">> >> \o SubSeq(PathGood, 3, 14)
\* "/session/S1", "/log/m" and the root path "/"
PathSession == << Chars("session"), S1 >>
PathLog == << Chars("log"), <<"m">> >>
PathRoot == << << >> >>

Paths ==
    { PathGood, PathSigned, PathNoSubsession, PathBadRound, PathBadGroup,
      PathNoParticipant, PathForeign, PathTwoApps, PathSession, PathLog, PathRoot }

\* the text {"path": p, "data": v}
Envelope(p, v) ==
    << Punct("{"), KeyTok("path"), Punct(":"), ValTok(p), Punct(","),
       KeyTok("data"), Punct(":"), ValTok(v), Punct("}") >>

Put(toks) == [event |-> "put", data |-> toks]

WellFormed ==
    { Put(Envelope(JStr(p), JNum(7))) : p \in Paths }
    \cup { Put(Envelope(JStr(PathGood), JNull)) }

Malformed ==
    { \* text cut short: not JSON
      Put(<< Punct("{"), KeyTok("path"), Punct(":") >>),
      \* JSON, not an object
      Put(<< ValTok(JNull) >>),
      \* no "path"
      Put(<< Punct("{"), KeyTok("data"), Punct(":"), ValTok(JNum(7)), Punct("}") >>),
      \* no "data", on a path the decision pattern matches and on one it does not
      Put(<< Punct("{"), KeyTok("path"), Punct(":"), ValTok(JStr(PathGood)), Punct("}") >>),
      Put(<< Punct("{"), KeyTok("path"), Punct(":"), ValTok(JStr(PathRoot)), Punct("}") >>),
      \* "path" is not a string
      Put(Envelope(JNum(5), JNum(7))) }

NotPut ==
    { [event |-> "keep-alive", data |-> << ValTok(JNull) >>],
      [event |-> "patch", data |-> Envelope(JStr(PathGood), JNum(7))],
      [event |-> "cancel", data |-> << Punct("{"), KeyTok("path"), Punct(":") >>] }

\* every message of the model, for a watcher that runs alone
FeedMessages == WellFormed \cup Malformed \cup NotPut

\* the messages read where several watchers and register_path interleave
Messages ==
    { Put(Envelope(JStr(p), JNum(7))) :
          p \in {PathGood, PathSession} }
    \cup { Put(<< Punct("{"), KeyTok("path"), Punct(":") >>) }

PatSession == << Part("session", "code") >>

\* the registrations a handler makes while it runs, by calling
\* register_path: onEventRegisters registers onEvent for the session paths
HandlerRegisters(f) ==
    IF f = "onEventRegisters"
    THEN << [regex |-> PatSession, handlerFunc |-> "onEvent"] >>
    ELSE << >>
PatLog == << Part("log", "key") >>
\* the group name x is used twice
PatDuplicate == << Part("session", "x"), Part("app", "x") >>

\* the calls of register_path the model makes
Registrations ==
    { [path |-> PatSession, handlerFunction |-> "onEventRaises"],
      [path |-> PatLog, handlerFunction |-> "onEvent"],
      [path |-> PatDuplicate, handlerFunction |-> "onEvent"] }

(***************************************************************************)
(* State.                                                                  *)
(***************************************************************************)
VARIABLES
    threads,       \* the Thread objects start() has created, in order
    _watchThread,  \* the global: 0 while unbound, else an index of threads
    lastCall,      \* how the last call of start or register_path ended
    nRegs,         \* calls of register_path so far
    nEvents,       \* messages read from the stream so far
    db             \* the Decision rows stored

vars == << threads, _watchThread, lastCall, nRegs, nEvents, db >>

NoPayload == [ok |-> FALSE, isDict |-> FALSE, d |-> << >>, v |-> JNull]
NoMessage == [event |-> "", data |-> << >>]

\* Thread.__init__ followed by the start of run(): the stream is open and
\* the loop waits for its first message.  calls, logged and saved record
\* what the thread did for the message at hand: the handler calls, the log
\* records and the rows handed to save(), each in order
NewThread ==
    [ matchers |-> << [regex |-> _DECISION_RE, handlerFunc |-> "_handleDecisionEvent"] >>,
      pc |-> "wait",
      msg |-> NoMessage,
      message_payload |-> NoPayload,
      mi |-> 1,
      matches |-> << >>,
      fi |-> 1,
      died |-> "",
      calls |-> << >>,
      logged |-> << >>,
      saved |-> << >> ]

Init ==
    /\ threads = << >>
    /\ _watchThread = 0
    /\ lastCall = "none"
    /\ nRegs = 0
    /\ nEvents = 0
    /\ db = {}

(***************************************************************************)
(* start() and register_path().                                            *)
(***************************************************************************)
\* start(): a new Thread object, bound to the global and started
start ==
    /\ Len(threads) < MaxStarts
    /\ threads' = Append(threads, NewThread)
    /\ _watchThread' = Len(threads) + 1
    /\ lastCall' = "start: ok"
    /\ UNCHANGED << nRegs, nEvents, db >>

\* how register_path(path, handlerFunction) ends: the global is read first,
\* then the pattern is compiled, then the pair is appended
RegisterOutcome(path) ==
    IF _watchThread = 0 THEN "register_path: NameError"
    ELSE IF ~CompileOk(path) THEN "register_path: re.error"
    ELSE "register_path: ok"

\* register_path with matchers.insert(0, ...) in place of matchers.append(...)
RegisterPathInsertFirst(path, handlerFunction) ==
    /\ nRegs < MaxRegs
    /\ nRegs' = nRegs + 1
    /\ lastCall' = RegisterOutcome(path)
    /\ threads' =
         IF RegisterOutcome(path) = "register_path: ok"
         THEN [threads EXCEPT ![_watchThread].matchers =
                   << [regex |-> path, handlerFunc |-> handlerFunction] >> \o @]
         ELSE threads
    /\ UNCHANGED << _watchThread, nEvents, db >>

register_path(path, handlerFunction) ==
    /\ nRegs < MaxRegs
    /\ nRegs' = nRegs + 1
    /\ lastCall' = RegisterOutcome(path)
    /\ threads' =
         IF RegisterOutcome(path) = "register_path: ok"
         THEN [threads EXCEPT ![_watchThread].matchers =
                   Append(@, [regex |-> path, handlerFunc |-> handlerFunction])]
         ELSE threads
    /\ UNCHANGED << _watchThread, nEvents, db >>

(***************************************************************************)
(* Thread.run(), one step at a time.                                       *)
(***************************************************************************)
\* an exception that leaves run() ends the thread
Die(th, exc) == [th EXCEPT !.pc = "dead", !.died = exc]

\* Receive with json.loads(msg.data) moved above the test of msg.event
ReceiveDecodeFirst(th, msg) ==
    LET got == [th EXCEPT !.msg = msg,
                          !.calls = << >>, !.logged = << >>, !.saved = << >>]
        payload == JsonLoads(msg.data)
    IN  IF ~payload.ok THEN Die(got, "ValueError")
        ELSE IF msg.event # "put"
        THEN [got EXCEPT !.message_payload = payload, !.pc = "done"]
        ELSE [got EXCEPT !.message_payload = payload,
                         !.matches = << >>,
                         !.mi = 1,
                         !.pc = "match"]

\* for msg in messages: if msg.event == 'put': json.loads(msg.data)
Receive(th, msg) ==
    LET got == [th EXCEPT !.msg = msg,
                          !.calls = << >>, !.logged = << >>, !.saved = << >>]
        payload == JsonLoads(msg.data)
    IN  IF msg.event # "put" THEN [got EXCEPT !.pc = "done"]
        ELSE IF ~payload.ok THEN Die(got, "ValueError")
        ELSE [got EXCEPT !.message_payload = payload,
                         !.matches = << >>,
                         !.mi = 1,
                         !.pc = "match"]

run_next(t, msg) ==
    /\ threads[t].pc = "wait"
    /\ nEvents < MaxEvents
    /\ nEvents' = nEvents + 1
    /\ threads' = [threads EXCEPT ![t] = Receive(@, msg)]
    /\ UNCHANGED << _watchThread, lastCall, nRegs, db >>

\* MatchOne with matches.insert(0, ...) in place of matches.append(...)
MatchOneInsertFirst(th) ==
    LET entry == th.matchers[th.mi]
        path == Subscript(th.message_payload, "path")
        data == Subscript(th.message_payload, "data")
        match == Match(entry.regex, path.val.s)
    IN  IF path.exc # "" THEN Die(th, path.exc)
        ELSE IF path.val.t # "str" THEN Die(th, "TypeError")
        ELSE IF ~match.ok THEN [th EXCEPT !.mi = @ + 1]
        ELSE IF data.exc # "" THEN Die(th, data.exc)
        ELSE [th EXCEPT !.mi = @ + 1,
                        !.matches = << [f |-> entry.handlerFunc,
                                        match |-> match.groups,
                                        data |-> data.val,
                                        at |-> th.mi] >> \o @]

\* one turn of  for (regex, handlerFunc) in self.matchers
MatchOne(th) ==
    LET entry == th.matchers[th.mi]
        path == Subscript(th.message_payload, "path")
        data == Subscript(th.message_payload, "data")
        match == Match(entry.regex, path.val.s)
    IN  IF path.exc # "" THEN Die(th, path.exc)
        ELSE IF path.val.t # "str" THEN Die(th, "TypeError")
        ELSE IF ~match.ok THEN [th EXCEPT !.mi = @ + 1]
        ELSE IF data.exc # "" THEN Die(th, data.exc)
        ELSE [th EXCEPT !.mi = @ + 1,
                        !.matches = Append(@, [f |-> entry.handlerFunc,
                                               match |-> match.groups,
                                               data |-> data.val,
                                               at |-> th.mi])]

\* MatchDone without the warning
MatchDoneSilent(th) ==
    IF Len(th.matches) = 0
    THEN [th EXCEPT !.pc = "done"]
    ELSE [th EXCEPT !.pc = "invoke", !.fi = 1]

\* the end of the matching loop: if len(matches) == 0: logging.warning(...)
\* and on to  for (f, match, data) in matches
MatchDone(th) ==
    IF Len(th.matches) = 0
    THEN [th EXCEPT !.pc = "done",
                    !.logged = Append(@, [level |-> "warning",
                                          path |-> th.message_payload.d["path"].s])]
    ELSE [th EXCEPT !.pc = "invoke", !.fi = 1]

run_match(t) ==
    /\ threads[t].pc = "match"
    /\ threads' = [threads EXCEPT ![t] =
                      IF @.mi <= Len(@.matchers) THEN MatchOne(@) ELSE MatchDone(@)]
    /\ UNCHANGED << _watchThread, lastCall, nRegs, nEvents, db >>

\* Except without the try statement: the exception leaves run()
ExceptNotCaught(th, result) ==
    IF result.raised THEN Die(th, result.exc) ELSE th

\* try: f(match, data)  except: logger.exception(..., message_payload['path'])
\* the thread once the call has ended with result
Except(th, result) ==
    IF result.raised
    THEN [th EXCEPT !.logged = Append(@, [level |-> "exception",
                                          path |-> th.message_payload.d["path"].s])]
    ELSE th

\* NextCall for a loop that looks at the registry again after the calls:
\* registrations added meanwhile are matched for the message at hand
NextCallRescans(th) ==
    IF th.pc = "dead" THEN th
    ELSE IF th.fi = Len(th.matches)
    THEN IF th.mi <= Len(th.matchers)
         THEN [th EXCEPT !.pc = "match", !.fi = @ + 1]
         ELSE [th EXCEPT !.pc = "done", !.fi = @ + 1]
    ELSE [th EXCEPT !.fi = @ + 1]

\* NextCall with one more try of a handler that has just raised
NextCallRetries(th) ==
    LET n == Len(th.calls)
    IN  IF th.pc = "dead" THEN th
        ELSE IF /\ n > 0
                /\ th.calls[n].raised
                /\ (n = 1 \/ th.calls[n - 1].at # th.calls[n].at)
        THEN th
        ELSE IF th.fi = Len(th.matches)
        THEN [th EXCEPT !.pc = "done", !.fi = @ + 1]
        ELSE [th EXCEPT !.fi = @ + 1]

\* the next turn of  for (f, match, data) in matches
NextCall(th) ==
    IF th.pc = "dead" THEN th
    ELSE IF th.fi = Len(th.matches)
    THEN [th EXCEPT !.pc = "done", !.fi = @ + 1]
    ELSE [th EXCEPT !.fi = @ + 1]

\* f(match, data) for the entry fi of matches, with what it leaves behind
Invoke(th, saveOk) ==
    LET call == th.matches[th.fi]
        result == Call(call.f, call.match, call.data, saveOk)
        called == [th EXCEPT
                     !.calls = Append(@, [f |-> call.f, at |-> call.at,
                                          raised |-> result.raised,
                                          exc |-> result.exc]),
                     !.saved = @ \o [i \in 1..Len(result.saved) |->
                                       [row |-> result.saved[i],
                                        stored |-> ~result.raised]]]
    IN  [th |-> NextCall(Except(called, result)),
         rows |-> IF result.raised THEN {}
                  ELSE {result.saved[i] : i \in 1..Len(result.saved)}]

\* the call runs on thread t; what the handler registers goes, while the
\* call runs, to the registry of the thread the global names
run_invoke(t, saveOk) ==
    /\ threads[t].pc = "invoke"
    /\ LET f == threads[t].matches[threads[t].fi].f
           registered == [threads EXCEPT ![_watchThread].matchers =
                                            @ \o HandlerRegisters(f)]
       IN  threads' = [registered EXCEPT ![t] = Invoke(@, saveOk).th]
    /\ db' = db \cup Invoke(threads[t], saveOk).rows
    /\ UNCHANGED << _watchThread, lastCall, nRegs, nEvents >>

\* run_loop for a loop that does not wait for the handlers: it goes back to
\* the stream while calls of the message at hand are still to be made
RunLoopWithoutWaiting(t) ==
    /\ threads[t].pc \in {"invoke", "done"}
    /\ threads' = [threads EXCEPT ![t] = [NewThread EXCEPT !.matchers = threads[t].matchers]]
    /\ UNCHANGED << _watchThread, lastCall, nRegs, nEvents, db >>

\* the end of the loop body: back to  for msg in messages  ; the names of
\* the body are dead until the next message sets them again
run_loop(t) ==
    /\ threads[t].pc = "done"
    /\ threads' = [threads EXCEPT ![t] = [NewThread EXCEPT !.matchers = threads[t].matchers]]
    /\ UNCHANGED << _watchThread, lastCall, nRegs, nEvents, db >>

Next ==
    \/ start
    \/ \E r \in Registrations : register_path(r.path, r.handlerFunction)
    \/ \E t \in 1..Len(threads), msg \in Messages : run_next(t, msg)
    \/ \E t \in 1..Len(threads) : run_match(t)
    \/ \E t \in 1..Len(threads), saveOk \in BOOLEAN : run_invoke(t, saveOk)
    \/ \E t \in 1..Len(threads) : run_loop(t)

Spec == Init /\ [][Next]_vars

(***************************************************************************)
(* One watcher alone on the stream: the state start() leaves, then the     *)
(* steps of its run() on every message of the model.                       *)
(***************************************************************************)
InitFeed ==
    /\ threads = << NewThread >>
    /\ _watchThread = 1
    /\ lastCall = "start: ok"
    /\ nRegs = 0
    /\ nEvents = 0
    /\ db = {}

NextFeed ==
    \/ \E msg \in FeedMessages : run_next(1, msg)
    \/ run_match(1)
    \/ \E saveOk \in BOOLEAN : run_invoke(1, saveOk)
    \/ run_loop(1)

SpecFeed == InitFeed /\ [][NextFeed]_vars

(***************************************************************************)
(* One watcher and the paths made from a pattern by writing a text in the  *)
(* place of each capture: the state start() leaves, then register_path and *)
(* the steps of run() on those paths.                                      *)
(***************************************************************************)
\* the texts written in the place of a capture: the name of a literal
\* segment, a single character, and a text that holds a newline
Values == { Chars("app"), <<"x">>, <<"a", Newline>> }

PatSessionApp == << Part("session", "code"), Part("app", "name") >>

RoundTripPatterns == { _DECISION_RE, PatSession, PatSessionApp }

\* the path "/lit1/vals[1]/lit2/vals[2]..." of the pattern pat
Substitute(pat, vals) ==
    [i \in 1..(2 * Len(pat)) |->
        IF i % 2 = 1 THEN pat[(i + 1) \div 2].lit ELSE vals[i \div 2]]

RoundTripPaths ==
    UNION { { Substitute(pat, vals) : vals \in [1..Len(pat) -> Values] } :
            pat \in RoundTripPatterns }

RoundTripMessages == { Put(Envelope(JStr(p), JNum(7))) : p \in RoundTripPaths }

RoundTripRegistrations ==
    { [path |-> PatSession, handlerFunction |-> "onEvent"],
      [path |-> PatSessionApp, handlerFunction |-> "onEvent"] }

NextMatch ==
    \/ \E r \in RoundTripRegistrations : register_path(r.path, r.handlerFunction)
    \/ \E msg \in RoundTripMessages : run_next(1, msg)
    \/ run_match(1)
    \/ \E saveOk \in BOOLEAN : run_invoke(1, saveOk)
    \/ run_loop(1)

SpecMatch == InitFeed /\ [][NextMatch]_vars

(***************************************************************************)
(* One watcher and a handler that registers: the state start() leaves,     *)
(* then register_path of that handler and the steps of run().              *)
(***************************************************************************)
RegisteringMessages ==
    { Put(Envelope(JStr(p), JNum(7))) : p \in {PathSession, PathGood, PathLog} }

NextRegistering ==
    \/ register_path(PatSession, "onEventRegisters")
    \/ \E msg \in RegisteringMessages : run_next(1, msg)
    \/ run_match(1)
    \/ \E saveOk \in BOOLEAN : run_invoke(1, saveOk)
    \/ run_loop(1)

SpecRegistering == InitFeed /\ [][NextRegistering]_vars

(***************************************************************************)
(* Properties.                                                             *)
(***************************************************************************)
Threads == 1..Len(threads)

\* the thread has a put message at hand whose envelope decodes to a dict
\* with a string "path"
HasPath(th) ==
    LET payload == JsonLoads(th.msg.data)
        path == Subscript(payload, "path")
    IN  /\ th.msg.event = "put"
        /\ payload.ok
        /\ path.exc = ""
        /\ path.val.t = "str"

PathOf(th) == JsonLoads(th.msg.data).d["path"].s

HasData(th) == Subscript(JsonLoads(th.msg.data), "data").exc = ""

\* the calls made so far for the message at hand are the first entries of
\* matches, one call each, in the order of matches
CallsFollowMatches(th) ==
    /\ Len(th.calls) <= Len(th.matches)
    /\ \A k \in 1..Len(th.calls) :
          th.calls[k].f = th.matches[k].f /\ th.calls[k].at = th.matches[k].at

\* C1: when a handler raises for a put event, the watcher does not end: the
\* exception is caught and logged, the thread goes on with the handlers
\* matched after the one that raised (each is called, in order, before the
\* event is done) and then returns to the stream for the next message.
C1_RaisingHandlerIsolated ==
    \A t \in Threads :
        LET th == threads[t]
        IN  (\E k \in 1..Len(th.calls) : th.calls[k].raised) =>
               /\ th.pc \in {"invoke", "done"}
               /\ CallsFollowMatches(th)
               /\ (th.pc = "invoke" =>
                     Len(th.calls) < Len(th.matches) /\ th.fi = Len(th.calls) + 1)
               /\ (th.pc = "done" => Len(th.calls) = Len(th.matches))
               /\ Len(SelectSeq(th.logged, LAMBDA l : l.level = "exception"))
                    = Len(SelectSeq(th.calls, LAMBDA c : c.raised))

\* a handler raised and the handler matched after it was called all the same
C1_Witness ==
    \E t \in Threads :
        \E k \in 1..Len(threads[t].calls) :
            /\ threads[t].calls[k].raised
            /\ k < Len(threads[t].calls)
            /\ threads[t].pc = "done"

\* a put message whose envelope does not decode: not JSON, or without the
\* path or the data field
Undecodable(msg) ==
    /\ msg.event = "put"
    /\ \/ ~JsonLoads(msg.data).ok
       \/ Subscript(JsonLoads(msg.data), "path").exc # ""
       \/ Subscript(JsonLoads(msg.data), "data").exc # ""

\* C2: a put event whose envelope cannot be decoded is dropped alone: no
\* handler is called for it, it is logged, and the watcher keeps running.
C2_UndecodableEventDropped ==
    \A t \in Threads :
        LET th == threads[t]
        IN  Undecodable(th.msg) =>
               /\ th.pc # "dead"
               /\ th.calls = << >>
               /\ (th.pc = "done" => th.logged # << >>)

\* the registrations among the first n of matchers whose pattern matches
\* path, by their positions, in increasing order
MatchingEntries(matchers, n, path) ==
    SelectSeq([i \in 1..n |-> i], LAMBDA i : Match(matchers[i].regex, path).ok)

C3_Dispatch ==
    \A t \in Threads :
        LET th == threads[t]
            want == MatchingEntries(th.matchers, th.mi - 1, PathOf(th))
        IN  HasPath(th) /\ HasData(th) =>
               /\ th.pc \in {"match", "invoke", "done"}
               /\ Len(th.matches) = Len(want)
               /\ \A k \in 1..Len(want) :
                     /\ th.matches[k].at = want[k]
                     /\ th.matches[k].f = th.matchers[want[k]].handlerFunc
               /\ CallsFollowMatches(th)
               /\ (th.pc = "match" => th.calls = << >>)
               /\ (th.pc = "invoke" =>
                     Len(th.calls) < Len(th.matches) /\ th.fi = Len(th.calls) + 1)
               /\ (th.pc = "done" => Len(th.calls) = Len(th.matches))

\* the matching pass ends only once it has tried every registration
C3_PassComplete ==
    \A t \in Threads :
        (threads[t].pc = "match" /\ threads'[t].pc \in {"invoke", "done"}) =>
            threads[t].mi = Len(threads[t].matchers) + 1

\* C3: for a put event on path P the handlers called are those of the
\* registrations whose pattern matches P, no other and each once, in the
\* order of registration; the registrations are those in the registry when
\* the matching pass over it ends.
C3_DispatchInRegistrationOrder == []C3_Dispatch /\ [][C3_PassComplete]_vars

\* two handlers were called for one event, the earlier registration first
C3_Witness ==
    \E t \in Threads :
        /\ threads[t].pc = "done"
        /\ Len(threads[t].calls) = 2
        /\ threads[t].calls[1].at = 1
        /\ threads[t].calls[2].at = 2
        /\ Len(threads[t].matchers) = 2

\* C4: register_path succeeds whether or not start() has been called.
C4_RegisterAlwaysSucceeds == lastCall # "register_path: NameError"

\* C5: a put event whose path matches no registered pattern ends with one
\* warning that names the path, no handler call, no row saved, and the
\* thread at the end of the loop body, from where it reads the next message.
C5_UnmatchedPathWarns ==
    \A t \in Threads :
        LET th == threads[t]
        IN  ( /\ HasPath(th)
              /\ th.pc \in {"invoke", "done", "dead"}
              /\ MatchingEntries(th.matchers, th.mi - 1, PathOf(th)) = << >> ) =>
               /\ th.pc = "done"
               /\ th.logged = << [level |-> "warning", path |-> PathOf(th)] >>
               /\ th.calls = << >>
               /\ th.saved = << >>

\* a path went unmatched although a pattern had been registered
C5_Witness ==
    \E t \in Threads :
        /\ HasPath(threads[t])
        /\ threads[t].pc = "done"
        /\ threads[t].matches = << >>
        /\ Len(threads[t].matchers) = 2

C6_Ignored ==
    \A t \in Threads :
        LET th == threads[t]
        IN  th.msg.event \notin {"put", ""} =>
               /\ th.pc = "done"
               /\ th.message_payload = NoPayload
               /\ th.matches = << >>
               /\ th.calls = << >>
               /\ th.logged = << >>
               /\ th.saved = << >>

C6_Frame ==
    \A t \in Threads :
        (threads[t].pc = "wait" /\ threads'[t].msg.event \notin {"put", ""}) =>
            /\ db' = db
            /\ threads'[t].matchers = threads[t].matchers

\* C6: a message whose event is not "put" is skipped: its data is not
\* decoded, no pattern is tried, no handler is called, nothing is logged,
\* the registry and the stored rows stay as they were, and the thread goes
\* on to the next message whatever the data was.
C6_NonPutIgnored == []C6_Ignored /\ [][C6_Frame]_vars

\* a "cancel" message whose data is not JSON has been skipped
C6_Witness ==
    \E t \in Threads :
        /\ threads[t].msg.event = "cancel"
        /\ ~JsonLoads(threads[t].msg.data).ok
        /\ threads[t].pc = "done"

(***************************************************************************)
(* The decision handler.  The integer a text stands for is stated here by  *)
(* writing the integer out in decimal, the other way round from int().     *)
(***************************************************************************)
DigitChar(d) ==
    CASE d = 0 -> "0" [] d = 1 -> "1" [] d = 2 -> "2" [] d = 3 -> "3"
      [] d = 4 -> "4" [] d = 5 -> "5" [] d = 6 -> "6" [] d = 7 -> "7"
      [] d = 8 -> "8" [] d = 9 -> "9"

RECURSIVE Decimal(_)
Decimal(n) ==
    IF n < 10 THEN << DigitChar(n) >>
    ELSE Decimal(n \div 10) \o << DigitChar(n % 10) >>

\* text is n written in decimal, with blanks around it and a sign allowed
Denotes(text, n) ==
    LET s == Strip(text)
    IN  IF n < 0 THEN s = <<"-">> \o Decimal(0 - n)
        ELSE s = Decimal(n) \/ s = <<"+">> \o Decimal(n)

SmallInts == (0 - 20)..20

IsIntText(text) == \E n \in SmallInts : Denotes(text, n)

\* the captures of the decision pattern on the path of the message at hand
Captures(th) == Match(_DECISION_RE, PathOf(th)).groups

\* the decision handler has been called for the message at hand
DecisionCalled(th) ==
    /\ HasPath(th) /\ HasData(th)
    /\ Match(_DECISION_RE, PathOf(th)).ok
    /\ \E k \in 1..Len(th.calls) : th.calls[k].f = "_handleDecisionEvent"

DecisionCall(th) ==
    th.calls[CHOOSE k \in 1..Len(th.calls) : th.calls[k].f = "_handleDecisionEvent"]

KnownSession(th) == \E r \in SessionRows : r.code = Captures(th)["session"]
KnownParticipant(th) ==
    \E r \in ParticipantRows : r.code = Captures(th)["participant_code"]

\* exactly one row went to save(): every field but subsession is what the
\* captures and the payload say, and the row is stored unless the database
\* refused it, the one way left for the call to raise
OneRowSaved(th) ==
    LET g == Captures(th)
    IN  /\ Len(th.saved) = 1
        /\ LET row == th.saved[1].row
           IN  /\ Denotes(g["round"], row.round)
               /\ Denotes(g["group"], row.group)
               /\ row.app = g["app"]
               /\ row.component = g["component"]
               /\ \E r \in SessionRows :
                     r.code = g["session"] /\ row.session = r.id
               /\ \E r \in ParticipantRows :
                     r.code = g["participant_code"] /\ row.participant = r.id
               /\ row.value = JsonLoads(th.msg.data).d["data"]
               /\ th.saved[1].stored = ~DecisionCall(th).raised
               /\ DecisionCall(th).exc \in {"", "DatabaseError"}
               /\ (th.saved[1].stored => row \in db)

\* C7: for a decision path with a known session, a known participant and
\* integer round and group, the decision handler hands exactly one row to
\* save(): round, group and a numeric subsession are the integers the
\* captures denote, app and component are the captured texts, session and
\* participant are the rows looked up, value is the payload as decoded.
\* On the path of the example the row has round 2, group 3, subsession 1.
C7_DecisionRowFromCaptures ==
    \A t \in Threads :
        LET th == threads[t]
            g == Captures(th)
        IN  ( /\ DecisionCalled(th)
              /\ KnownSession(th) /\ KnownParticipant(th)
              /\ IsIntText(g["round"]) /\ IsIntText(g["group"]) ) =>
               /\ OneRowSaved(th)
               /\ (IsIntText(g["subsession"]) =>
                     \E n \in SmallInts :
                        /\ Denotes(g["subsession"], n)
                        /\ th.saved[1].row.subsession = {n})
               /\ (PathOf(th) = PathGood =>
                     /\ th.saved[1].row.round = 2
                     /\ th.saved[1].row.group = 3
                     /\ th.saved[1].row.subsession = {1}
                     /\ th.saved[1].row.app = Econ
                     /\ th.saved[1].row.component = Chat)

\* the row of the path with round "-2", group " 3" and subsession "10" is stored
C7_Witness ==
    \E t \in Threads :
        /\ DecisionCalled(threads[t])
        /\ PathOf(threads[t]) = PathSigned
        /\ Len(threads[t].saved) = 1
        /\ threads[t].saved[1].stored
        /\ threads[t].saved[1].row.round = 0 - 2
        /\ threads[t].saved[1].row.group = 3
        /\ threads[t].saved[1].row.subsession = {10}

\* C8: for a decision path whose session capture names no known session the
\* decision handler returns without raising, hands no row to save() and
\* nothing is logged, whatever the other captures are.
C8_UnknownSessionDropped ==
    \A t \in Threads :
        LET th == threads[t]
        IN  (DecisionCalled(th) /\ ~KnownSession(th)) =>
               /\ ~DecisionCall(th).raised
               /\ th.saved = << >>
               /\ th.logged = << >>
               /\ th.pc # "dead"

\* the handler returned on an unknown session whose round is no integer and
\* whose participant is unknown
C8_Witness ==
    \E t \in Threads :
        /\ DecisionCalled(threads[t])
        /\ PathOf(threads[t]) = PathForeign
        /\ ~IsIntText(Captures(threads[t])["round"])
        /\ ~KnownParticipant(threads[t])
        /\ threads[t].pc = "done"

\* C9: for a decision path with a known session whose round or group capture
\* is no integer the decision handler raises (ValueError, from int()): no
\* row goes to save(), the exception is caught and logged with the path, and
\* the thread goes on.
C9_BadRoundOrGroupRejected ==
    \A t \in Threads :
        LET th == threads[t]
            g == Captures(th)
        IN  ( /\ DecisionCalled(th)
              /\ KnownSession(th)
              /\ ~(IsIntText(g["round"]) /\ IsIntText(g["group"])) ) =>
               /\ DecisionCall(th).raised
               /\ DecisionCall(th).exc = "ValueError"
               /\ th.saved = << >>
               /\ th.logged = << [level |-> "exception", path |-> PathOf(th)] >>
               /\ th.pc \in {"invoke", "done"}

\* the handler raised on an empty group capture and the thread went on
C9_Witness ==
    \E t \in Threads :
        /\ DecisionCalled(threads[t])
        /\ PathOf(threads[t]) = PathBadGroup
        /\ DecisionCall(threads[t]).raised
        /\ threads[t].pc = "done"

\* C10: for a decision path with a known session, integer round and group
\* and a known participant, a subsession capture that is no integer is no
\* failure: one row goes to save(), with subsession unset and the other
\* fields as for a numeric subsession.
C10_SubsessionOptional ==
    \A t \in Threads :
        LET th == threads[t]
            g == Captures(th)
        IN  ( /\ DecisionCalled(th)
              /\ KnownSession(th) /\ KnownParticipant(th)
              /\ IsIntText(g["round"]) /\ IsIntText(g["group"])
              /\ ~IsIntText(g["subsession"]) ) =>
               /\ OneRowSaved(th)
               /\ th.saved[1].row.subsession = {}

\* the row of the path with subsession "abc" is stored
C10_Witness ==
    \E t \in Threads :
        /\ DecisionCalled(threads[t])
        /\ PathOf(threads[t]) = PathNoSubsession
        /\ Len(threads[t].saved) = 1
        /\ threads[t].saved[1].stored
        /\ threads[t].saved[1].row.subsession = {}
        /\ threads[t].saved[1].row \in db

\* C11: for a decision path with a known session and integer round and
\* group whose participant capture names no known participant, the decision
\* handler raises (DoesNotExist, from the participant lookup) instead of
\* returning: no row goes to save(), the exception is caught where the
\* handler was called and logged with the path of the message, and the
\* thread goes on.
C11_UnknownParticipantRaises ==
    \A t \in Threads :
        LET th == threads[t]
            g == Captures(th)
        IN  ( /\ DecisionCalled(th)
              /\ KnownSession(th)
              /\ IsIntText(g["round"]) /\ IsIntText(g["group"])
              /\ ~KnownParticipant(th) ) =>
               /\ DecisionCall(th).raised
               /\ DecisionCall(th).exc = "DoesNotExist"
               /\ th.saved = << >>
               /\ th.logged = << [level |-> "exception", path |-> PathOf(th)] >>
               /\ th.pc \in {"invoke", "done"}

\* the handler raised on the path whose participant code is unknown and the
\* thread went on to the end of the message
C11_Witness ==
    \E t \in Threads :
        /\ DecisionCalled(threads[t])
        /\ PathOf(threads[t]) = PathNoParticipant
        /\ KnownSession(threads[t])
        /\ ~KnownParticipant(threads[t])
        /\ DecisionCall(threads[t]).exc = "DoesNotExist"
        /\ threads[t].pc = "done"

\* path is pat with a text in the place of each capture, every text not
\* empty, without "/" and allowed
IsSubstitution(pat, path, Allowed(_)) ==
    /\ Len(path) = 2 * Len(pat)
    /\ \A k \in 1..Len(pat) :
          /\ path[2 * k - 1] = pat[k].lit
          /\ path[2 * k] # << >>
          /\ \A i \in 1..Len(path[2 * k]) : path[2 * k][i] # Slash
          /\ Allowed(path[2 * k])

\* the texts of path keyed by the capture names of pat
Assignment(pat, path) ==
    [n \in {pat[k].cap : k \in 1..Len(pat)} |->
        path[2 * (CHOOSE k \in 1..Len(pat) : pat[k].cap = n)]]

\* every registration the thread has tried on a path made from its pattern
\* matched, and the captures are the texts the path was made from
RoundTrip(Allowed(_)) ==
    \A t \in Threads :
        LET th == threads[t]
        IN  (HasPath(th) /\ HasData(th) /\ th.pc \in {"match", "invoke", "done"}) =>
               \A i \in 1..Len(th.matchers) :
                  (i < th.mi /\ IsSubstitution(th.matchers[i].regex, PathOf(th), Allowed)) =>
                     \E j \in 1..Len(th.matches) :
                        /\ th.matches[j].at = i
                        /\ th.matches[j].match =
                              Assignment(th.matchers[i].regex, PathOf(th))

AnyText(text) == TRUE
NoNewline(text) == \A i \in 1..Len(text) : text[i] # Newline

OneSegment(text) ==
    /\ text # << >>
    /\ \A i \in 1..Len(text) : text[i] # Slash

\* C13: in every match of the decision pattern each capture other than the
\* last, participant_code, is exactly one path segment (not empty, without
\* "/"); a path on which such a capture would be empty or span several
\* segments is not matched with such a capture.
C13_CapturesAreSegments ==
    \A t \in Threads :
        \A j \in 1..Len(threads[t].matches) :
            threads[t].matches[j].f = "_handleDecisionEvent" =>
               \A n \in DOMAIN threads[t].matches[j].match :
                  n # "participant_code" => OneSegment(threads[t].matches[j].match[n])

\* C14: a call of register_path with a pattern in which a capture name
\* occurs twice fails with the pattern error of re.compile, and the call
\* leaves every registry as it was, and with it the state of every watcher.
C14_DuplicateNameRejected ==
    [][ register_path(PatDuplicate, "onEvent") =>
           /\ lastCall' = "register_path: re.error"
           /\ threads' = threads ]_vars

\* s is the start of r
IsPrefix(s, r) == s = r \/ (Len(s) <= Len(r) /\ SubSeq(r, 1, Len(s)) = s)

\* whatever the calls of register_path that come between its steps, a
\* watcher ends only on an envelope that does not decode, its loop over the
\* registry stays within the registry, and every entry of matches stands
\* for the registration at its position
C15_InFlight ==
    \A t \in Threads :
        LET th == threads[t]
        IN  /\ (th.pc = "dead" => Undecodable(th.msg))
            /\ (th.pc = "match" => th.mi \in 1..(Len(th.matchers) + 1))
            /\ \A k \in 1..Len(th.matches) :
                  /\ th.matches[k].at < th.mi
                  /\ th.matches[k].f = th.matchers[th.matches[k].at].handlerFunc
                  /\ \A j \in 1..(k - 1) : th.matches[j].at < th.matches[k].at

C15_Step ==
    \A t \in Threads :
        \* a registry only grows at its end
        /\ IsPrefix(threads[t].matchers, threads'[t].matchers)
        \* a call of register_path leaves the watchers where they are, and a
        \* call that returns has put its registration last in the registry
        /\ (nRegs' # nRegs =>
              /\ [threads'[t] EXCEPT !.matchers = threads[t].matchers] = threads[t]
              /\ (lastCall' = "register_path: ok" /\ t = _watchThread =>
                    Len(threads'[t].matchers) = Len(threads[t].matchers) + 1))
        \* a message is matched from the first registration on, and up to
        \* the last one the registry holds when the pass ends
        /\ (threads[t].pc = "wait" /\ threads'[t].pc = "match" =>
              threads'[t].mi = 1 /\ threads'[t].matches = << >>)
        /\ (threads[t].pc = "match" /\ threads'[t].pc \in {"invoke", "done"} =>
              [k \in 1..Len(threads'[t].matches) |-> threads'[t].matches[k].at]
                = MatchingEntries(threads'[t].matchers, Len(threads'[t].matchers),
                                  PathOf(threads'[t])))

C16_OncePerEvent ==
    \A t \in Threads :
        LET th == threads[t]
        IN  /\ \A j, k \in 1..Len(th.calls) :
                  j < k => th.calls[j].at < th.calls[k].at
            /\ \A k \in 1..Len(th.calls) :
                  /\ HasPath(th)
                  /\ Match(th.matchers[th.calls[k].at].regex, PathOf(th)).ok
                  /\ th.calls[k].f = th.matchers[th.calls[k].at].handlerFunc
                  /\ (th.pc # "dead" => th.fi > k)
            /\ (th.pc \in {"wait", "match"} => th.calls = << >>)

\* a step makes at most one call, and reading the next message makes none:
\* the calls of the message before are over and none of them is made again
C16_Step ==
    \A t \in Threads :
        /\ Len(threads'[t].calls) <= Len(threads[t].calls) + 1
        /\ (threads'[t].msg # threads[t].msg => threads'[t].calls = << >>)
        /\ (Len(threads'[t].calls) = Len(threads[t].calls) + 1 =>
              /\ threads[t].pc = "invoke"
              /\ threads'[t].msg = threads[t].msg
              /\ SubSeq(threads'[t].calls, 1, Len(threads[t].calls)) = threads[t].calls)

\* C16: a put event a watcher has read is processed at most once: the
\* handler of each matching registration is called at most once for it, and
\* a call that raised is not made again, neither for that event nor when
\* later events arrive.
C16_AtMostOnce == []C16_OncePerEvent /\ [][C16_Step]_vars

\* the second message the one watcher read is done, its second handler
\* raised, and two calls were made for it
C16_Witness ==
    \E t \in Threads :
        /\ Len(threads) = 1
        /\ nEvents = 2
        /\ threads[t].pc = "done"
        /\ Len(threads[t].matches) = 2
        /\ Len(threads[t].calls) = 2
        /\ threads[t].calls[2].raised

\* the watchers that run: started and not ended by an exception
Running == {t \in Threads : threads[t].pc # "dead"}

\* C17: after any calls of start() and register_path() at most one watcher
\* runs, on one connection: a call of start() while a watcher runs makes no
\* second running watcher.
C17_OneRunningWatcher == Cardinality(Running) <= 1

\* the registry register_path appends to: the matchers of the thread the
\* global names
Registry == threads[_watchThread].matchers

\* C18: the registry register_path appends to only grows at its end, over
\* any calls of start() and register_path() and any steps of the watchers:
\* what it holds at one time is the start of what it holds at any later
\* time, the built-in registration at position 1 included.
C18_RegistryAppendOnly ==
    [][ _watchThread # 0 => IsPrefix(Registry, Registry') ]_vars

\* where a watcher is in its loop tells what it has done for the message at
\* hand: nothing while it waits, no call while it matches, the calls of the
\* first fi - 1 entries of matches while it calls, all of them when done
C19_Position ==
    \A t \in Threads :
        LET th == threads[t]
        IN  /\ (th.pc = "wait" =>
                  th.msg = NoMessage /\ th.matches = << >> /\ th.calls = << >>)
            /\ (th.pc = "match" => th.calls = << >>)
            /\ (th.pc = "invoke" =>
                  th.fi = Len(th.calls) + 1 /\ th.fi <= Len(th.matches))
            /\ (th.pc = "done" => Len(th.calls) = Len(th.matches))

\* the order of the steps of one watcher: it takes a message only while it
\* waits, it waits again only once every handler matched for the message at
\* hand has been called and has ended, it calls only after the matching
\* pass, and a step of the calling loop is one whole call
C19_Order ==
    \A t \in Threads :
        LET th == threads[t]
            next == threads'[t]
        IN  /\ (next.msg # th.msg /\ next.msg # NoMessage => th.pc = "wait")
            /\ (th.pc # "match" /\ next.pc = "match" => th.pc = "wait")
            /\ (th.pc # "wait" /\ next.pc = "wait" =>
                  /\ th.pc = "done"
                  /\ Len(th.calls) = Len(th.matches)
                  /\ th.fi = Len(th.matches) + 1)
            /\ (th.pc # "invoke" /\ next.pc = "invoke" =>
                  th.pc = "match" /\ next.fi = 1 /\ next.calls = << >>)
            /\ (th.pc = "invoke" /\ next # [th EXCEPT !.matchers = next.matchers] =>
                  /\ next.pc \in {"invoke", "done"}
                  /\ Len(next.calls) = Len(th.calls) + 1
                  /\ next.fi = th.fi + 1
                  /\ next.matches = th.matches
                  /\ next.msg = th.msg)

\* C19: one watcher handles its events one after the other: every call of
\* a handler for an event has ended before the matching or any call for the
\* next event begins, and the calls for one event are made one at a time.
C19_SequentialDispatch == []C19_Position /\ [][C19_Order]_vars

\* the one watcher is at its second message with the first call made and
\* the second still to make
C19_Witness ==
    \E t \in Threads :
        /\ Len(threads) = 1
        /\ nEvents = 2
        /\ threads[t].pc = "invoke"
        /\ threads[t].fi = 2
        /\ Len(threads[t].calls) = 1
        /\ Len(threads[t].matches) = 2

\* the registrations added since the matching pass for the message at hand
\* ended, by their positions
AddedSincePass(th) == th.mi..Len(th.matchers)

\* once the calls for a message have begun, the handlers to call are those
\* the pass found, and no registration added since is called or matched
C20_FixedSet ==
    \A t \in Threads :
        LET th == threads[t]
        IN  (th.pc \in {"invoke", "done"} /\ HasPath(th) /\ HasData(th)) =>
               /\ CallsFollowMatches(th)
               /\ \A i \in AddedSincePass(th) :
                     /\ \A k \in 1..Len(th.calls) : th.calls[k].at # i
                     /\ \A k \in 1..Len(th.matches) : th.matches[k].at # i

\* the calls begin only when the pass has tried the whole registry, what a
\* call adds to the registry leaves matches as it is, the pass is not taken
\* up again, and the pass for the next message starts at the first entry
C20_Step ==
    \A t \in Threads :
        LET th == threads[t]
            next == threads'[t]
        IN  /\ (th.pc = "match" /\ next.pc \in {"invoke", "done"} =>
                  th.mi = Len(th.matchers) + 1 /\ next.mi = th.mi)
            /\ (th.pc = "invoke" =>
                  /\ next.pc \in {"invoke", "done"}
                  /\ next.matches = th.matches
                  /\ next.mi = th.mi
                  /\ IsPrefix(th.matchers, next.matchers))
            /\ (th.pc = "done" => next.pc \in {"done", "wait"})
            /\ (th.pc = "wait" /\ next.pc = "match" => next.mi = 1)

\* C20: the handlers called for an event are fixed by a whole matching pass
\* before the first of them runs: a registration a handler adds by calling
\* register_path while it is called for event E is not called for E, even
\* if its pattern matches the path of E, and it is matched against every
\* later event.
C20_HandlersFixedByPass == []C20_FixedSet /\ [][C20_Step]_vars

\* an event is done for which the handler registered while an earlier event
\* was handled has been called, and the one registered while this event was
\* handled, whose pattern matches too, has not
C20_Witness ==
    \E t \in Threads :
        LET th == threads[t]
        IN  /\ th.pc = "done"
            /\ HasPath(th)
            /\ \E k \in 1..Len(th.calls) : th.calls[k].f = "onEventRegisters"
            /\ \E k \in 1..Len(th.calls) :
                  th.calls[k].f = "onEvent" /\ th.calls[k].at < th.mi
            /\ \E i \in AddedSincePass(th) :
                  /\ th.matchers[i].handlerFunc = "onEvent"
                  /\ Match(th.matchers[i].regex, PathOf(th)).ok
                  /\ \A k \in 1..Len(th.calls) : th.calls[k].at # i

====
